---- MODULE Spec2Model ----
(***************************************************************************)
(* Model of nlip_soln:                                                     *)
(*   - chat2/stateful_chatbot.py: ChatApplication (session_dict, touched,  *)
(*     purge_old) and ChatSession (execute, stop);                         *)
(*   - mcp/client/detector.py: PIIDetector (detect_pii, mask, unmask,      *)
(*     get_session_mappings, clear_session);                               *)
(*   - mcp/client/client.py and mcp/mcp.py: MCPClient (process_query,      *)
(*     cleanup) and the MCP ChatSession (start, execute, stop).            *)
(* Spec        : the stateful chat application (turns, clock, stop/purge). *)
(* SpecStops   : Spec with stops that keep occurring.                      *)
(* SpecPII     : the PII detector (detect, mask, unmask, clear).           *)
(* SpecMCP     : one MCP chat session (start, turns, stop).                *)
(* SpecApps    : a process hosting either application.                     *)
(* SpecThreads : a purge and a turn running concurrently.                  *)
(* SpecTurns   : the turns of two sessions running concurrently.           *)
(* Text is a sequence of one-character strings.  A Python dict whose       *)
(* iteration order the code depends on is a sequence of [k, v] records in  *)
(* insertion order.                                                        *)
(***************************************************************************)
EXTENDS Integers, Sequences, FiniteSets, TLC

VARIABLES
  now,           \* the value time.time() returns (seconds)
  session_dict,  \* ChatApplication.session_dict: correlator -> ConversationState
  touched,       \* ChatApplication.touched: insertion-ordered correlator -> time
  nextInst,      \* identity of the next StatefulGenAI object to be constructed
  last,          \* what the last operation of the chat application did
  text,          \* the text handed to the detector
  response,      \* what the classifier answers to mask's prompt for that text
  pii_mappings,  \* PIIDetector.pii_mappings: session_id -> ordered placeholder -> value
  maskCalls,     \* number of mask calls made so far (bounded)
  plast,         \* what the last operation of the detector did
  BLOCK,         \* client.py's global BLOCK
  mcp_session,   \* MCPClient.session: None, or a ClientSession open or closed
  current_session_id,  \* MCPClient.current_session_id
  mlast,         \* what the last operation of the MCP chat session did
  app,           \* the application the process hosts
  purge,         \* a purge_old call running in a thread of its own
  turn,          \* an execute call running in a thread of its own
  peer           \* an execute call of another session, in a thread of its own

vars == <<now, session_dict, touched, nextInst, last,
          text, response, pii_mappings, maskCalls, plast,
          BLOCK, mcp_session, current_session_id, mlast, app, purge, turn,
          peer>>
storeVars == <<now, session_dict, touched, nextInst, last>>
piiVars == <<text, response, pii_mappings, maskCalls, plast>>
mcpVars == <<BLOCK, mcp_session, current_session_id, mlast, app>>
threadVars == <<purge, turn, peer>>

---------------------------------------------------------------------------
(* Bounds of the model *)

\* the clock is not advanced beyond this value
MaxNow == 3601
\* at most this many StatefulGenAI objects are constructed
MaxInst == 3
\* an inbound message carries at most this many token sub-messages
MaxTokens == 2

\* correlators a client may send and uuid4 may return
Correlators == {"c1", "c2", "c3"}
\* amounts by which the clock advances between operations
Deltas == {3599, 3600, 3601}
\* time the StatefulGenAI constructor may take
CtorDelays == {0, 3599}

---------------------------------------------------------------------------
(* Python values *)

\* Python's None, as the answer of dict.get(correlator, None)
None == 0

\* the idle limit hard-coded in purge_old
IdleLimit == 3600

RECURSIVE SeqsUpTo(_, _)
\* all sequences over S of length at most n
SeqsUpTo(S, n) ==
  IF n = 0 THEN {<<>>}
  ELSE LET shorter == SeqsUpTo(S, n - 1)
       IN shorter \cup {Append(s, x) : s \in {t \in shorter : Len(t) = n - 1}, x \in S}

\* the keys of an insertion-ordered dict
DictKeys(d) == {d[i].k : i \in 1..Len(d)}

\* d[key] of an insertion-ordered dict that holds key
DictGet(d, key) == d[CHOOSE i \in 1..Len(d) : d[i].k = key].v

\* d[key] = val : an existing key keeps its position, a new key goes last
DictSet(d, key, val) ==
  IF key \in DictKeys(d)
  THEN [i \in 1..Len(d) |-> IF d[i].k = key THEN [k |-> key, v |-> val] ELSE d[i]]
  ELSE Append(d, [k |-> key, v |-> val])

\* d.pop(key, None)
DictPop(d, key) == SelectSeq(d, LAMBDA e : e.k # key)

\* session_dict.pop(key, None) on the correlator -> state function
FunPop(f, key) == [x \in (DOMAIN f) \ {key} |-> f[x]]

\* the states bound in a session_dict
Instances(sd) == {sd[c] : c \in DOMAIN sd}

---------------------------------------------------------------------------
(* ChatApplication *)

\* mutant: the lookup never finds the stored state
retrieve_answer_forgets(sd, correlator) == None

\* retrieve_session_data: the answer, session_dict.get(correlator, None)
retrieve_answer(sd, correlator) ==
  IF correlator \in DOMAIN sd THEN sd[correlator] ELSE None

\* mutant: a read access leaves the touch time alone
retrieve_touch_skipped(t, correlator, time) == t

\* retrieve_session_data: its effect on touched, at the time of the call
retrieve_touch(t, correlator, time) == DictSet(t, correlator, time)

\* mutant: the table is rebuilt around the new entry
store_data_resets(sd, correlator, session_data) ==
  [x \in {correlator} |-> session_data]

\* mutant: the state constructed for a new correlator is not stored
store_data_drops(sd, correlator, session_data) == sd

\* store_session_data: session_dict[correlator] = session_data
store_data(sd, correlator, session_data) ==
  [x \in (DOMAIN sd) \cup {correlator} |->
     IF x = correlator THEN session_data ELSE sd[x]]

\* store_session_data: touched[correlator] = time.time()
store_touch(t, correlator, time) == DictSet(t, correlator, time)

\* the test of purge_old: the entry has not been touched for an hour
Expired(time, t) == time - t > IdleLimit

RECURSIVE PurgeIter(_, _, _, _, _)
\* purge_old's loop over touched.keys(), at position i of the key view.  used is
\* the size of the dict when the iteration began: CPython's dict iterator raises
\* RuntimeError ("dictionary changed size during iteration") on the first
\* advance after the size differs.
PurgeIter(i, t, sd, used, time) ==
  IF Len(t) # used
  THEN [touched |-> t, session_dict |-> sd, raised |-> TRUE]
  ELSE IF i > Len(t)
  THEN [touched |-> t, session_dict |-> sd, raised |-> FALSE]
  ELSE IF Expired(time, t[i].v)
  THEN PurgeIter(i + 1, DictPop(t, t[i].k), FunPop(sd, t[i].k), used, time)
  ELSE PurgeIter(i + 1, t, sd, used, time)

\* mutant: the sweep removes nothing
purge_old_idle(t, sd, time) ==
  [touched |-> t, session_dict |-> sd, raised |-> FALSE]

\* mutant: the sweep removes the touch time and keeps the state
purge_old_touched(t, sd, time) ==
  [touched |-> PurgeIter(1, t, sd, Len(t), time).touched, session_dict |-> sd,
   raised |-> PurgeIter(1, t, sd, Len(t), time).raised]

\* purge_old: the tables it leaves and whether it raised
purge_old(t, sd, time) == PurgeIter(1, t, sd, Len(t), time)

---------------------------------------------------------------------------
(* ChatSession of the stateful chat application *)

\* no message is returned: the turn raised, or the operation is not a turn
NoReply == [returned |-> FALSE, tokens |-> <<>>]

\* the message execute returns: the token sub-messages it carries
Reply(correlator) == [returned |-> TRUE, tokens |-> <<correlator>>]

\* mutant: the last token of the message is taken
TurnCorrelator_last(correlators, uuid) ==
  IF Len(correlators) = 0 THEN uuid ELSE correlators[Len(correlators)]

\* the correlator of a turn: the first token of the message, else a new uuid4
TurnCorrelator(correlators, uuid) ==
  IF Len(correlators) = 0 THEN uuid ELSE correlators[1]

\* what uuid.uuid4() may return in a turn: it is called only for a message
\* without tokens
UuidDraws(correlators) ==
  IF Len(correlators) = 0 THEN Correlators ELSE {""}

\* ChatSession.execute on a message carrying the token list correlators.
\* last records the turn: first is the first token of the message ("" if it has
\* none), minted what uuid.uuid4() returned ("" if it was not called), reply the
\* message returned.
\* uuid is what uuid.uuid4() returns if it is called, delay the time the
\* StatefulGenAI constructor takes, chatOk whether chat_server.chat returns
\* normally.
Execute(correlators) ==
  \E uuid \in UuidDraws(correlators) :
  LET correlator == TurnCorrelator(correlators, uuid)
      answer == retrieve_answer(session_dict, correlator)
      t1 == retrieve_touch(touched, correlator, now)
      carried == Len(correlators) > 0
      first == IF carried THEN correlators[1] ELSE ""
  IN /\ IF answer # None
        THEN \* the stored state serves the turn
             \E chatOk \in BOOLEAN :
               /\ touched' = t1
               /\ UNCHANGED <<session_dict, nextInst, now>>
               /\ last' = [op |-> "execute", correlator |-> correlator,
                           carried |-> carried, inst |-> answer,
                           created |-> FALSE, raised |-> ~chatOk,
                           first |-> first, minted |-> uuid,
                           reply |-> IF chatOk THEN Reply(correlator) ELSE NoReply]
        ELSE \E delay \in CtorDelays :
               /\ now + delay <= MaxNow
               /\ now' = now + delay
               /\ \/ \* StatefulGenAI(...) raised: the turn ends after the retrieve
                     /\ touched' = t1
                     /\ UNCHANGED <<session_dict, nextInst>>
                     /\ last' = [op |-> "execute", correlator |-> correlator,
                                 carried |-> carried, inst |-> None,
                                 created |-> FALSE, raised |-> TRUE,
                                 first |-> first, minted |-> uuid, reply |-> NoReply]
                  \/ \* a new state is constructed, stored, and serves the turn
                     \E chatOk \in BOOLEAN :
                       /\ nextInst <= MaxInst
                       /\ session_dict' = store_data(session_dict, correlator, nextInst)
                       /\ touched' = store_touch(t1, correlator, now + delay)
                       /\ nextInst' = nextInst + 1
                       /\ last' = [op |-> "execute", correlator |-> correlator,
                                   carried |-> carried, inst |-> nextInst,
                                   created |-> TRUE, raised |-> ~chatOk,
                                   first |-> first, minted |-> uuid,
                                   reply |-> IF chatOk THEN Reply(correlator) ELSE NoReply]
     /\ UNCHANGED piiVars
     /\ UNCHANGED mcpVars
     /\ UNCHANGED threadVars

\* ChatSession.stop: self.app.purge_old()
Stop ==
  LET r == purge_old(touched, session_dict, now)
  IN /\ touched' = r.touched
     /\ session_dict' = r.session_dict
     /\ last' = [op |-> "purge", correlator |-> "", carried |-> FALSE,
                 inst |-> None, created |-> FALSE,
                 raised |-> r.raised,
                 first |-> "", minted |-> "", reply |-> NoReply]
     /\ UNCHANGED <<now, nextInst>>
     /\ UNCHANGED piiVars
     /\ UNCHANGED mcpVars
     /\ UNCHANGED threadVars

\* time passes between two operations
Tick(d) ==
  /\ now + d <= MaxNow
  /\ now' = now + d
  /\ last' = [op |-> "tick", correlator |-> "", carried |-> FALSE,
              inst |-> None, created |-> FALSE,
              raised |-> FALSE,
              first |-> "", minted |-> "", reply |-> NoReply]
  /\ UNCHANGED <<session_dict, touched, nextInst>>
  /\ UNCHANGED piiVars
  /\ UNCHANGED mcpVars
  /\ UNCHANGED threadVars

---------------------------------------------------------------------------
(* Python strings, as sequences of one-character strings *)

\* str.upper() of the letters the model uses, by lower-case letter
UpperCase ==
  [a |-> "A", c |-> "C", d |-> "D", e |-> "E", f |-> "F", h |-> "H", n |-> "N",
   o |-> "O", r |-> "R", s |-> "S", t |-> "T", u |-> "U", y |-> "Y"]

\* str.upper() of one character
UpperChar(ch) == IF ch \in DOMAIN UpperCase THEN UpperCase[ch] ELSE ch

\* str.lower() of one character
LowerChar(ch) ==
  IF \E l \in DOMAIN UpperCase : UpperCase[l] = ch
  THEN CHOOSE l \in DOMAIN UpperCase : UpperCase[l] = ch
  ELSE ch

\* str.upper()
Upper(str) == [i \in 1..Len(str) |-> UpperChar(str[i])]

\* str.lower()
Lower(str) == [i \in 1..Len(str) |-> LowerChar(str[i])]

\* the characters str.strip() removes
Whitespace == {" "}

RECURSIVE LStrip(_)
\* str.lstrip()
LStrip(str) ==
  IF str # <<>> /\ str[1] \in Whitespace THEN LStrip(Tail(str)) ELSE str

RECURSIVE RStrip(_)
\* str.rstrip()
RStrip(str) ==
  IF str # <<>> /\ str[Len(str)] \in Whitespace
  THEN RStrip(SubSeq(str, 1, Len(str) - 1))
  ELSE str

\* str.strip()
Strip(str) == RStrip(LStrip(str))

\* sub in str
IsSubstr(sub, str) ==
  \E i \in 0..(Len(str) - Len(sub)) : SubSeq(str, i + 1, i + Len(sub)) = sub

RECURSIVE Replace(_, _, _)
\* str.replace(old, new) for a non-empty old: every non-overlapping occurrence,
\* found from the left
Replace(str, old, new) ==
  IF old = <<>> THEN str
  ELSE LET hits == {i \in 1..(Len(str) - Len(old) + 1) :
                      SubSeq(str, i, i + Len(old) - 1) = old}
       IN IF hits = {} THEN str
          ELSE LET at == CHOOSE i \in hits : \A j \in hits : i <= j
               IN SubSeq(str, 1, at - 1) \o new
                  \o Replace(SubSeq(str, at + Len(old), Len(str)), old, new)

\* the position of the first sep in str, 0 if there is none
FirstIndex(str, sep) ==
  IF \E i \in 1..Len(str) : str[i] = sep
  THEN CHOOSE i \in 1..Len(str) : str[i] = sep /\ \A j \in 1..(i - 1) : str[j] # sep
  ELSE 0

---------------------------------------------------------------------------
(* uuid4 and placeholders *)

\* the length of str(uuid.uuid4())
UuidLen == 36
\* the number of characters mask keeps of it: str(uuid.uuid4())[:8]
PlaceholderIdLen == 8

\* hexadecimal digits the sampled uuids are made of
HexSamples == {"a", "1"}

\* str(uuid.uuid4()) with every random digit equal to hex
UuidStr(hex) ==
  [i \in 1..UuidLen |->
     IF i \in {9, 14, 19, 24} THEN "-" ELSE IF i = 15 THEN "4" ELSE hex]

\* values uuid.uuid4() may return to mask for a placeholder
UuidSamples == {UuidStr(h) : h \in HexSamples}

\* session ids: what a caller passes and what str(uuid.uuid4()) may return when
\* the caller passes none
SessionIds == {"s1", "s2"}

\* session_id = None
NoSession == "none"

\* f"[{pii_type.upper()}_{placeholder_id}]" with placeholder_id = str(uuid)[:8]
MakePlaceholder(pii_type, uuid) ==
  <<"[">> \o Upper(pii_type) \o <<"_">> \o SubSeq(uuid, 1, PlaceholderIdLen) \o <<"]">>

---------------------------------------------------------------------------
(* What the classifier (ollama.chat) may answer *)

\* a JSON field holding the string str
JStr(str) == [tag |-> "str", s |-> str]
\* a JSON field that is missing from its object
JAbsent == [tag |-> "absent", s |-> <<>>]
\* a JSON field holding a value that is not a string (null, a number)
JOther == [tag |-> "other", s |-> <<>>]

\* an element of pii_items that is an object with these fields
Item(value, type) == [dict |-> TRUE, value |-> value, type |-> type]
\* an element of pii_items that is not an object
BadItem == [dict |-> FALSE, value |-> JAbsent, type |-> JAbsent]

\* the default of item.get('type', 'other')
OtherType == <<"o", "t", "h", "e", "r">>

\* the classifier's answers to mask's prompt:
\*   raise     - ollama.chat raises
\*   nonobject - the content is JSON but not an object (result.get raises)
\*   object    - the content is a JSON object; items is its pii_items ([] if
\*               missing), iterable whether pii_items can be iterated
\*   text      - the content is not JSON; fbRaised and lines are what the second
\*               call, made by _fallback_pii_extraction, does
MaskResponseOf(kind, items, iterable, fbRaised, lines) ==
  [kind |-> kind, items |-> items, iterable |-> iterable,
   fbRaised |-> fbRaised, lines |-> lines]

---------------------------------------------------------------------------
(* PIIDetector._check_with_ollama and detect_pii *)

\* the words _check_with_ollama looks for in a reply that is not JSON
pii_indicators ==
  { <<"t", "r", "u", "e">>, <<"y", "e", "s">>, <<"f", "o", "u", "n", "d">>,
    <<"d", "e", "t", "e", "c", "t", "e", "d">> }

\* mutant: a failed classifier call reports PII
OnClassifierError_reports ==
  [has_pii |-> "true", types |-> "unknown", confidence |-> "low"]

\* _check_with_ollama: the result of the outer except branch
OnClassifierError ==
  [has_pii |-> "false", types |-> "empty", confidence |-> "low"]

\* _check_with_ollama on the classifier's answer d:
\*   kind raise/nonobject/object/text as for mask; has_pii, types and confidence
\*   are the fields of the JSON object ("absent" if missing), content the reply
\*   text when it is not JSON.  has_pii is "true", "false" or "other" (a JSON
\*   value that is not a boolean).
check_with_ollama(d) ==
  CASE d.kind = "raise" -> OnClassifierError
    [] d.kind = "nonobject" -> OnClassifierError
    [] d.kind = "object" ->
         [has_pii |-> IF d.has_pii = "absent" THEN "false" ELSE d.has_pii,
          types |-> IF d.types = "absent" THEN "empty" ELSE d.types,
          confidence |-> IF d.confidence = "absent" THEN "low" ELSE d.confidence]
    [] OTHER ->
         LET has_pii == \E ind \in pii_indicators : IsSubstr(ind, Lower(d.content))
         IN [has_pii |-> IF has_pii THEN "true" ELSE "false",
             types |-> IF has_pii THEN "unknown" ELSE "empty",
             confidence |-> "low"]

\* detect_pii: the fields it copies from _check_with_ollama's result
detect_pii(d) ==
  LET ollama_findings == check_with_ollama(d)
  IN [has_pii |-> ollama_findings.has_pii,
      types |-> ollama_findings.types,
      confidence |-> ollama_findings.confidence]

---------------------------------------------------------------------------
(* PIIDetector.mask *)

RECURSIVE FallbackLines(_, _, _)
\* _fallback_pii_extraction: the loop over the lines of the reply, from line i
FallbackLines(lines, i, txt) ==
  IF i > Len(lines) THEN <<>>
  ELSE LET line == lines[i]
           at == FirstIndex(line, ":")
           pii_type == Lower(Strip(SubSeq(line, 1, at - 1)))
           pii_value == Strip(SubSeq(line, at + 1, Len(line)))
           rest == FallbackLines(lines, i + 1, txt)
       IN IF at > 0 /\ pii_value # <<>> /\ IsSubstr(pii_value, txt)
          THEN <<Item(JStr(pii_value), JStr(pii_type))>> \o rest
          ELSE rest

\* mutant: a failed fallback call takes the whole text for a PII value
fallback_pii_extraction_guess(resp, txt) ==
  IF resp.fbRaised THEN <<Item(JStr(txt), JAbsent)>>
  ELSE FallbackLines(resp.lines, 1, txt)

\* _fallback_pii_extraction(text): [] when its classifier call raises
fallback_pii_extraction(resp, txt) ==
  IF resp.fbRaised THEN <<>> ELSE FallbackLines(resp.lines, 1, txt)

\* mutant: the test of an item looks at nothing but the value being non-empty
AcceptItem_any(pii_value, txt) == pii_value # <<>>

\* mask: the test of an item, `if pii_value and pii_value in text`
AcceptItem(pii_value, txt) == pii_value # <<>> /\ IsSubstr(pii_value, txt)

\* what the loop of mask did for an accepted item: the value, the placeholder
\* minted for it, and the masked text the replacement was applied to
Minted(pii_value, placeholder, masked_text) ==
  [value |-> pii_value, placeholder |-> placeholder, before |-> masked_text]

RECURSIVE MaskItems(_, _, _, _, _, _, _, _)
\* mask: the loop over pii_items from item i.  mapping is
\* self.pii_mappings[session_id], uuids[i] what uuid.uuid4() returns if item i
\* is accepted.  raised: an item made the loop raise (it is not an object, or
\* its value is not a string).  log lists, in order, the items accepted.
MaskItems(items, i, txt, mapping, masked_text, placeholder_map, uuids, log) ==
  IF i > Len(items)
  THEN [raised |-> FALSE, mapping |-> mapping, masked_text |-> masked_text,
        placeholder_map |-> placeholder_map, log |-> log]
  ELSE LET item == items[i]
           pii_value == IF item.value.tag = "absent" THEN <<>> ELSE Strip(item.value.s)
           pii_type == IF item.type.tag = "absent" THEN Lower(OtherType)
                       ELSE Lower(item.type.s)
           placeholder == MakePlaceholder(pii_type, uuids[i])
       IN IF ~item.dict \/ item.value.tag = "other" \/ item.type.tag = "other"
          THEN [raised |-> TRUE, mapping |-> mapping, masked_text |-> masked_text,
                placeholder_map |-> placeholder_map, log |-> log]
          ELSE IF AcceptItem(pii_value, txt)
          THEN MaskItems(items, i + 1, txt,
                         DictSet(mapping, placeholder, pii_value),
                         Replace(masked_text, pii_value, placeholder),
                         DictSet(placeholder_map, pii_value, placeholder),
                         uuids,
                         Append(log, Minted(pii_value, placeholder, masked_text)))
          ELSE MaskItems(items, i + 1, txt, mapping, masked_text,
                         placeholder_map, uuids, log)

\* mask: the items the try block extracts from the classifier's answer
ExtractItems(resp, txt) ==
  IF resp.kind = "text" THEN fallback_pii_extraction(resp, txt) ELSE resp.items

\* mutant: the except branch returns no text
MaskErrorResult_blank(txt, session_id) ==
  [masked_text |-> <<>>, session_id |-> session_id, mappings_count |-> 0,
   placeholder_map |-> <<>>, error |-> TRUE]

\* mask: the result of the except branch
MaskErrorResult(txt, session_id) ==
  [masked_text |-> txt, session_id |-> session_id, mappings_count |-> 0,
   placeholder_map |-> <<>>, error |-> TRUE]

\* mask(text, session_id) with the classifier answering resp: the result
\* returned, the mapping table left and the items the loop accepted.  mappings
\* is self.pii_mappings.
mask(txt, session_id, resp, uuids, mappings) ==
  IF resp.kind \in {"raise", "nonobject"}
  THEN \* raised before the session mapping is initialised
       [result |-> MaskErrorResult(txt, session_id), pii_mappings |-> mappings,
        log |-> <<>>]
  ELSE LET initialised ==
             IF session_id \in DOMAIN mappings THEN mappings
             ELSE [x \in (DOMAIN mappings) \cup {session_id} |->
                     IF x = session_id THEN <<>> ELSE mappings[x]]
           loop == IF resp.kind = "object" /\ ~resp.iterable
                   THEN [raised |-> TRUE, mapping |-> initialised[session_id],
                         masked_text |-> txt, placeholder_map |-> <<>>,
                         log |-> <<>>]
                   ELSE MaskItems(ExtractItems(resp, txt), 1, txt,
                                  initialised[session_id], txt, <<>>, uuids, <<>>)
           after == [initialised EXCEPT ![session_id] = loop.mapping]
       IN IF loop.raised
          THEN [result |-> MaskErrorResult(txt, session_id), pii_mappings |-> after,
                log |-> loop.log]
          ELSE [result |-> [masked_text |-> loop.masked_text,
                            session_id |-> session_id,
                            mappings_count |-> Len(loop.placeholder_map),
                            placeholder_map |-> loop.placeholder_map,
                            error |-> FALSE],
                pii_mappings |-> after, log |-> loop.log]

---------------------------------------------------------------------------
(* PIIDetector.unmask, get_session_mappings, clear_session *)

RECURSIVE UnmaskLoop(_, _, _)
\* unmask: the loop over mappings.items(), from entry i
UnmaskLoop(unmasked_text, mapping, i) ==
  IF i > Len(mapping) THEN unmasked_text
  ELSE UnmaskLoop(Replace(unmasked_text, mapping[i].k, mapping[i].v), mapping, i + 1)

RECURSIVE UnmaskLoop_reversed(_, _, _)
\* mutant: the loop replaces values by placeholders
UnmaskLoop_reversed(unmasked_text, mapping, i) ==
  IF i > Len(mapping) THEN unmasked_text
  ELSE UnmaskLoop_reversed(Replace(unmasked_text, mapping[i].v, mapping[i].k),
                           mapping, i + 1)

\* mutant: unmask with the arguments of replace exchanged
unmask_reversed(masked_text, session_id, mappings) ==
  IF session_id \notin DOMAIN mappings THEN masked_text
  ELSE UnmaskLoop_reversed(masked_text, mappings[session_id], 1)

\* unmask(masked_text, session_id)
unmask(masked_text, session_id, mappings) ==
  IF session_id \notin DOMAIN mappings THEN masked_text
  ELSE UnmaskLoop(masked_text, mappings[session_id], 1)

\* get_session_mappings(session_id)
get_session_mappings(session_id, mappings) ==
  IF session_id \in DOMAIN mappings THEN mappings[session_id] ELSE <<>>

\* mutant: the session is reported as cleared but its mapping is kept
clear_session_keeps(session_id, mappings) ==
  [returned |-> session_id \in DOMAIN mappings, pii_mappings |-> mappings]

\* mutant: clearing one session empties the whole table
clear_session_all(session_id, mappings) ==
  [returned |-> session_id \in DOMAIN mappings, pii_mappings |-> <<>>]

\* clear_session(session_id): the value returned and the table left
clear_session(session_id, mappings) ==
  IF session_id \in DOMAIN mappings
  THEN [returned |-> TRUE, pii_mappings |-> FunPop(mappings, session_id)]
  ELSE [returned |-> FALSE, pii_mappings |-> mappings]

---------------------------------------------------------------------------
(* Bounds and sampled inputs of the detector model *)

\* at most this many mask calls are made
MaxMaskCalls == 2
\* the text handed to the detector has at most this many characters
MaxTextLen == 2
\* the classifier lists at most this many PII items
MaxItems == 2
\* the reply read by the line-based fallback has at most this many lines
MaxLines == 2

\* the characters of the text
TextChars == {"a", "N"}

\* the texts handed to the detector
Texts == SeqsUpTo(TextChars, MaxTextLen)

\* the elements the classifier may put in pii_items
ItemSamples ==
  { Item(JStr(<<"a">>), JStr(<<"n">>)),
    Item(JStr(<<"N", " ">>), JAbsent),
    Item(JStr(<<"a", "N">>), JStr(<<"N">>)),
    Item(JAbsent, JStr(<<"n">>)),
    BadItem }

\* the lines the classifier may write for the line-based fallback
LineSamples ==
  { <<"n", ":", "a">>,
    <<"N", ":", " ", "a", "N", " ">>,
    <<"a", "N">> }

\* the classifier's answers to mask's prompt
MaskResponses ==
  { MaskResponseOf("raise", <<>>, TRUE, FALSE, <<>>),
    MaskResponseOf("nonobject", <<>>, TRUE, FALSE, <<>>),
    MaskResponseOf("object", <<>>, FALSE, FALSE, <<>>),
    MaskResponseOf("text", <<>>, TRUE, TRUE, <<>>) }
  \cup {MaskResponseOf("object", items, TRUE, FALSE, <<>>) :
          items \in SeqsUpTo(ItemSamples, MaxItems)}
  \cup {MaskResponseOf("text", <<>>, TRUE, FALSE, lines) :
          lines \in SeqsUpTo(LineSamples, MaxLines)}

\* a classifier answer to _check_with_ollama's prompt
DetectResponseOf(kind, has_pii, types, confidence, content) ==
  [kind |-> kind, has_pii |-> has_pii, types |-> types,
   confidence |-> confidence, content |-> content]

\* the classifier's answers to _check_with_ollama's prompt
DetectResponses ==
  { DetectResponseOf("raise", "absent", "absent", "absent", <<>>),
    DetectResponseOf("nonobject", "absent", "absent", "absent", <<>>),
    DetectResponseOf("object", "true", "list", "medium", <<>>),
    DetectResponseOf("object", "absent", "absent", "absent", <<>>),
    DetectResponseOf("object", "other", "list", "other", <<>>),
    DetectResponseOf("object", "true", "other", "high", <<>>),
    DetectResponseOf("text", "absent", "absent", "absent", <<"Y", "e", "s">>),
    DetectResponseOf("text", "absent", "absent", "absent", <<"n", "o">>),
    DetectResponseOf("text", "absent", "absent", "absent", <<>>) }

\* the record of a detector operation
PLast(op, session, input, output, count, pmap, flag, det, log) ==
  [op |-> op, session |-> session, input |-> input,
   output |-> output, count |-> count, pmap |-> pmap, flag |-> flag, det |-> det,
   log |-> log]

\* no detection result
NoDet ==
  [kind |-> "", content |-> <<>>, has_pii |-> "", types |-> "", confidence |-> ""]

\* the placeholder recorded first under each session
FirstPlaceholders(mappings) ==
  {mappings[s][1].k : s \in {x \in DOMAIN mappings : mappings[x] # <<>>}}

\* texts handed to unmask: the text itself, the masked text the last mask call
\* returned, and a reply that consists of one recorded placeholder
UnmaskInputs ==
  {text} \cup (IF plast.op = "mask" THEN {plast.output} ELSE {})
         \cup FirstPlaceholders(pii_mappings)

---------------------------------------------------------------------------
(* Operations of the detector *)

\* detect_pii(text) with the classifier answering d
Detect(d) ==
  /\ plast' = PLast("detect", "", text, text, 0, <<>>, FALSE,
                    [kind |-> d.kind, content |-> d.content] @@ detect_pii(d), <<>>)
  /\ UNCHANGED <<text, response, pii_mappings, maskCalls>>
  /\ UNCHANGED storeVars
  /\ UNCHANGED mcpVars
  /\ UNCHANGED threadVars

\* mask(text, arg): arg is a session id or None; uuidSession is what
\* str(uuid.uuid4()) returns for the session id if arg is None, uuids what it
\* returns for the placeholder of each item
Mask(arg, uuidSession, uuids) ==
  LET session_id == IF arg = NoSession THEN uuidSession ELSE arg
      r == mask(text, session_id, response, uuids, pii_mappings)
  IN /\ maskCalls < MaxMaskCalls
     /\ maskCalls' = maskCalls + 1
     /\ pii_mappings' = r.pii_mappings
     /\ plast' = PLast("mask", session_id, text,
                       r.result.masked_text, r.result.mappings_count,
                       r.result.placeholder_map, r.result.error, NoDet, r.log)
     /\ UNCHANGED <<text, response>>
     /\ UNCHANGED storeVars
     /\ UNCHANGED mcpVars
     /\ UNCHANGED threadVars

\* unmask(masked_text, session_id).  flag: the call unmasks what the mask call
\* just before it returned, under the session id that call returned
Unmask(masked_text, session_id) ==
  /\ plast' = PLast("unmask", session_id, masked_text,
                    unmask(masked_text, session_id, pii_mappings), 0, <<>>,
                    plast.op = "mask" /\ plast.output = masked_text
                      /\ plast.session = session_id,
                    NoDet, <<>>)
  /\ UNCHANGED <<text, response, pii_mappings, maskCalls>>
  /\ UNCHANGED storeVars
  /\ UNCHANGED mcpVars
  /\ UNCHANGED threadVars

\* get_session_mappings(session_id)
GetSessionMappings(session_id) ==
  /\ plast' = PLast("get", session_id, <<>>, <<>>, 0,
                    get_session_mappings(session_id, pii_mappings), FALSE, NoDet,
                    <<>>)
  /\ UNCHANGED <<text, response, pii_mappings, maskCalls>>
  /\ UNCHANGED storeVars
  /\ UNCHANGED mcpVars
  /\ UNCHANGED threadVars

\* clear_session(session_id).  flag: the value returned
ClearSession(session_id) ==
  LET r == clear_session(session_id, pii_mappings)
  IN /\ pii_mappings' = r.pii_mappings
     /\ plast' = PLast("clear", session_id, <<>>, <<>>, 0, <<>>,
                       r.returned, NoDet, <<>>)
     /\ UNCHANGED <<text, response, maskCalls>>
     /\ UNCHANGED storeVars
     /\ UNCHANGED mcpVars
     /\ UNCHANGED threadVars

\* PIIDetector.__init__
InitDetector ==
  /\ pii_mappings = <<>>
  /\ maskCalls = 0
  /\ plast = PLast("init", "", <<>>, <<>>, 0, <<>>, FALSE, NoDet, <<>>)

---------------------------------------------------------------------------
(* MCPClient (mcp/client/client.py) and the MCP ChatSession (mcp/mcp.py).    *)
(* Each ChatSession owns one MCPClient, which owns one PIIDetector.          *)

\* MCPClient.session: None until connect_to_server assigns the ClientSession;
\* exit_stack.aclose() closes it
NoClientSession == "None"

\* the warning process_query returns in BLOCK mode
WarningText == <<"W">>

\* `if pii_result['has_pii']`: a has_pii that is no boolean is truthy or falsy
Truthy(has_pii, otherTruthy) ==
  has_pii = "true" \/ (has_pii = "other" /\ otherTruthy)

\* what the generation/tool pipeline does with a query: it raises, repeats the
\* query in its answer, or answers with another text
PipeKinds == {"raise", "echo", "other"}

\* _process_masked_query(query): self.session.list_tools() raises when there is
\* no open ClientSession, before anything is sent to the model
process_masked_query(query, sess, pipe) ==
  IF sess # "open" \/ pipe = "raise"
  THEN [raised |-> TRUE, text |-> <<>>, sent |-> sess = "open"]
  ELSE [raised |-> FALSE, text |-> IF pipe = "echo" THEN query ELSE <<"N">>,
        sent |-> TRUE]

\* the outcome of process_query:
\*   raised, text   - it raised, or the text it returned
\*   has_pii        - the branch taken on pii_result['has_pii']
\*   masked, unmasked, maskSession, unmaskSession - the detector calls made and
\*                    the session ids they were given
\*   called, query  - whether _process_masked_query was called, and with what
\*   sent           - whether that call got as far as the model
\*   csid, mappings - current_session_id and the detector's table afterwards
Outcome(raised, txt, has_pii, masked, maskSession, unmasked, unmaskSession, called, query, sent, csid, mappings) ==
  [raised |-> raised, text |-> txt, has_pii |-> has_pii, masked |-> masked,
   maskSession |-> maskSession, unmasked |-> unmasked,
   unmaskSession |-> unmaskSession, called |-> called, query |-> query,
   sent |-> sent, csid |-> csid, mappings |-> mappings]

\* mutant: the query itself is dispatched after it was masked
process_query_raw(query, d, otherTruthy, joinOk, resp, uuidSession, uuids, pipe, block, csid, mappings, sess) ==
  LET pii_result == detect_pii(d)
  IN IF Truthy(pii_result.has_pii, otherTruthy)
     THEN IF block
          THEN Outcome(pii_result.types = "other" /\ ~joinOk, WarningText, TRUE,
                       FALSE, NoSession, FALSE, NoSession, FALSE, <<>>, FALSE,
                       csid, mappings)
          ELSE LET session_id == IF csid = NoSession THEN uuidSession ELSE csid
                   m == mask(query, session_id, resp, uuids, mappings)
                   p == process_masked_query(query, sess, pipe)
               IN Outcome(p.raised,
                          IF p.raised THEN <<>>
                          ELSE unmask(p.text, m.result.session_id, m.pii_mappings),
                          TRUE, TRUE, csid, ~p.raised, m.result.session_id,
                          TRUE, query, p.sent,
                          m.result.session_id, m.pii_mappings)
     ELSE LET p == process_masked_query(query, sess, pipe)
          IN Outcome(p.raised, p.text, FALSE, FALSE, NoSession, FALSE, NoSession,
                     TRUE, query, p.sent, csid, mappings)

\* mutant: the session id mask returned is not kept
process_query_forgets(query, d, otherTruthy, joinOk, resp, uuidSession, uuids, pipe, block, csid, mappings, sess) ==
  LET pii_result == detect_pii(d)
  IN IF Truthy(pii_result.has_pii, otherTruthy)
     THEN IF block
          THEN Outcome(pii_result.types = "other" /\ ~joinOk, WarningText, TRUE,
                       FALSE, NoSession, FALSE, NoSession, FALSE, <<>>, FALSE,
                       csid, mappings)
          ELSE LET session_id == IF csid = NoSession THEN uuidSession ELSE csid
                   m == mask(query, session_id, resp, uuids, mappings)
                   masked_query == m.result.masked_text
                   p == process_masked_query(masked_query, sess, pipe)
               IN Outcome(p.raised,
                          IF p.raised THEN <<>>
                          ELSE unmask(p.text, m.result.session_id, m.pii_mappings),
                          TRUE, TRUE, csid, ~p.raised, m.result.session_id,
                          TRUE, masked_query, p.sent,
                          csid, m.pii_mappings)
     ELSE LET p == process_masked_query(query, sess, pipe)
          IN Outcome(p.raised, p.text, FALSE, FALSE, NoSession, FALSE, NoSession,
                     TRUE, query, p.sent, csid, mappings)

\* process_query(query).  d is the classifier's answer to detect_pii,
\* otherTruthy the truth value of a has_pii that is no boolean, joinOk whether
\* ', '.join(types) succeeds for a types that is no list of strings, resp and
\* uuids as for mask, uuidSession the session id mask mints when
\* current_session_id is None, pipe what the pipeline does.
process_query(query, d, otherTruthy, joinOk, resp, uuidSession, uuids, pipe, block, csid, mappings, sess) ==
  LET pii_result == detect_pii(d)
  IN IF Truthy(pii_result.has_pii, otherTruthy)
     THEN IF block
          THEN Outcome(pii_result.types = "other" /\ ~joinOk, WarningText, TRUE,
                       FALSE, NoSession, FALSE, NoSession, FALSE, <<>>, FALSE,
                       csid, mappings)
          ELSE LET session_id == IF csid = NoSession THEN uuidSession ELSE csid
                   m == mask(query, session_id, resp, uuids, mappings)
                   masked_query == m.result.masked_text
                   p == process_masked_query(masked_query, sess, pipe)
               IN Outcome(p.raised,
                          IF p.raised THEN <<>>
                          ELSE unmask(p.text, m.result.session_id, m.pii_mappings),
                          TRUE, TRUE, csid, ~p.raised, m.result.session_id,
                          TRUE, masked_query, p.sent,
                          m.result.session_id, m.pii_mappings)
     ELSE LET p == process_masked_query(query, sess, pipe)
          IN Outcome(p.raised, p.text, FALSE, FALSE, NoSession, FALSE, NoSession,
                     TRUE, query, p.sent, csid, mappings)

\* mutant: cleanup closes the connection and leaves the detector alone
cleanup_keeps(csid, mappings) == mappings

\* MCPClient.cleanup: the detector's table it leaves
cleanup(csid, mappings) ==
  IF csid # NoSession THEN clear_session(csid, mappings).pii_mappings
  ELSE mappings

\* no turn
NoOutcome ==
  Outcome(FALSE, <<>>, FALSE, FALSE, NoSession, FALSE, NoSession, FALSE, <<>>,
          FALSE, NoSession, <<>>)

\* the message ChatSession.execute returns: message is FALSE for None
NoMessage == [message |-> FALSE, text |-> <<>>]
TextMessage(txt) == [message |-> TRUE, text |-> txt]

\* the record of an operation of the MCP chat session
MLast(op, failed, reply, outcome) ==
  [op |-> op, failed |-> failed, reply |-> reply, turn |-> outcome]

\* ChatSession.start: connect_to_server; when it raises, cleanup.  assigned:
\* the failure came after self.session was assigned
MCPStart(ok, assigned) ==
  /\ mlast.op = "init"
  /\ mcp_session' = IF ok THEN "open" ELSE IF assigned THEN "closed"
                    ELSE mcp_session
  /\ pii_mappings' = IF ok THEN pii_mappings
                     ELSE cleanup(current_session_id, pii_mappings)
  /\ mlast' = MLast("start", ~ok, NoMessage, NoOutcome)
  /\ UNCHANGED <<BLOCK, current_session_id, text, response, maskCalls, plast, app>>
  /\ UNCHANGED storeVars
  /\ UNCHANGED threadVars

\* the values uuid.uuid4() may return for the session id: it is called by mask
\* when current_session_id is None
SessionDraws == IF current_session_id = NoSession THEN SessionIds ELSE {NoSession}

\* ChatSession.execute(msg) on the text of msg: process_query, any exception
\* turned into the return value None.  The choices other than d and pipe are
\* drawn only where process_query consults them.
MCPExecute(d, pipe) ==
  LET found == detect_pii(d)
      masks == ~BLOCK /\ found.has_pii \in {"true", "other"}
  IN
  \E otherTruthy \in (IF found.has_pii = "other" THEN BOOLEAN ELSE {TRUE}),
     joinOk \in (IF BLOCK /\ found.types = "other" THEN BOOLEAN ELSE {TRUE}),
     uuidSession \in (IF masks THEN SessionDraws ELSE {NoSession}),
     uuids \in (IF masks
                THEN [1..Len(ExtractItems(response, text)) -> UuidSamples]
                ELSE {<<>>}) :
  LET r == process_query(text, d, otherTruthy, joinOk, response, uuidSession,
                         uuids, pipe, BLOCK, current_session_id, pii_mappings,
                         mcp_session)
  IN /\ mlast.op \in {"start", "execute"}
     /\ r.masked => maskCalls < MaxMaskCalls
     /\ maskCalls' = IF r.masked THEN maskCalls + 1 ELSE maskCalls
     /\ current_session_id' = r.csid
     /\ pii_mappings' = r.mappings
     /\ mlast' = MLast("execute", r.raised,
                       IF r.raised THEN NoMessage ELSE TextMessage(r.text), r)
     /\ UNCHANGED <<BLOCK, mcp_session, text, response, plast, app>>
     /\ UNCHANGED storeVars
     /\ UNCHANGED threadVars

\* ChatSession.stop: self.client.cleanup()
MCPStop ==
  /\ mlast.op \in {"start", "execute"}
  /\ pii_mappings' = cleanup(current_session_id, pii_mappings)
  /\ mcp_session' = IF mcp_session = "open" THEN "closed" ELSE mcp_session
  /\ mlast' = MLast("stop", FALSE, NoMessage, NoOutcome)
  /\ UNCHANGED <<BLOCK, current_session_id, text, response, maskCalls, plast, app>>
  /\ UNCHANGED storeVars
  /\ UNCHANGED threadVars

\* MCPClient.__init__ and the ChatSession created around it
InitClient ==
  /\ mcp_session = NoClientSession
  /\ current_session_id = NoSession
  /\ mlast = MLast("init", FALSE, NoMessage, NoOutcome)

---------------------------------------------------------------------------
(* Threads of the stateful chat application: a stop of one connection        *)
(* (purge_old) and a turn of another (execute) run concurrently, one dict     *)
(* operation or time.time() call at a time.                                  *)

\* the state of the purge thread:
\*   pc      - idle, next (advance the iterator), test, popT, popS, done, raised
\*   t0      - the value of `now` in purge_old
\*   pos     - the position of the iterator in touched; used the size of touched
\*             when the iterator was made
\*   x       - the key the loop is at
\*   popped, inserted - keys purge_old removed from touched, and keys the turn
\*             added to it, since the iterator was made
PurgeState(pc, t0, pos, used, x, popped, inserted) ==
  [pc |-> pc, t0 |-> t0, pos |-> pos, used |-> used, x |-> x,
   popped |-> popped, inserted |-> inserted]

\* the state of the turn thread:
\*   pc - idle, touch, construct, store, storeTouch, chat
TurnState(pc, correlator, chat_server) ==
  [pc |-> pc, correlator |-> correlator, chat_server |-> chat_server]

\* the purge thread is inside the loop of purge_old
Sweeping == purge.pc \in {"next", "test", "popT", "popS"}

\* purge_old: now = time.time() and the iterator over self.touched.keys()
PurgeStart ==
  /\ purge.pc \in {"idle", "done", "raised"}
  /\ purge' = PurgeState("next", now, 1, Len(touched), "", 0, 0)
  /\ UNCHANGED <<storeVars, turn>>
  /\ UNCHANGED <<piiVars, mcpVars, peer>>

\* the for statement advances the iterator: RuntimeError when the size of the
\* dict differs from the size it had when the iterator was made.  After a
\* removal and an insertion the size is the same again, and an insertion that
\* resized the table leaves the iterator at any later position.
PurgeNext ==
  /\ purge.pc = "next"
  /\ IF Len(touched) # purge.used
     THEN purge' = [purge EXCEPT !.pc = "raised"]
     ELSE \E pos \in (IF purge.inserted > 0 THEN purge.pos..(Len(touched) + 1)
                       ELSE {purge.pos}) :
            purge' = IF pos > Len(touched)
                     THEN [purge EXCEPT !.pc = "done"]
                     ELSE [purge EXCEPT !.pc = "test", !.pos = pos,
                                        !.x = touched[pos].k]
  /\ UNCHANGED <<storeVars, turn>>
  /\ UNCHANGED <<piiVars, mcpVars, peer>>

\* if now - self.touched[x] > 3600
PurgeTest ==
  /\ purge.pc = "test"
  /\ purge' = IF Expired(purge.t0, DictGet(touched, purge.x))
              THEN [purge EXCEPT !.pc = "popT"]
              ELSE [purge EXCEPT !.pc = "next", !.pos = purge.pos + 1]
  /\ UNCHANGED <<storeVars, turn>>
  /\ UNCHANGED <<piiVars, mcpVars, peer>>

\* self.touched.pop(x, None)
PurgePopTouched ==
  /\ purge.pc = "popT"
  /\ touched' = DictPop(touched, purge.x)
  /\ purge' = [purge EXCEPT !.pc = "popS",
                            !.popped = IF purge.x \in DictKeys(touched)
                                       THEN purge.popped + 1 ELSE purge.popped]
  /\ UNCHANGED <<now, session_dict, nextInst, last, turn>>
  /\ UNCHANGED <<piiVars, mcpVars, peer>>

\* self.session_dict.pop(x, None)
PurgePopSession ==
  /\ purge.pc = "popS"
  /\ session_dict' = FunPop(session_dict, purge.x)
  /\ purge' = [purge EXCEPT !.pc = "next"]
  /\ UNCHANGED <<now, touched, nextInst, last, turn>>
  /\ UNCHANGED <<piiVars, mcpVars, peer>>

\* execute up to answer = self.session_dict.get(correlator, None)
TurnGet(correlators) ==
  /\ turn.pc = "idle"
  /\ \E uuid \in UuidDraws(correlators) :
       LET correlator == TurnCorrelator(correlators, uuid)
       IN turn' = TurnState("touch", correlator,
                            retrieve_answer(session_dict, correlator))
  /\ UNCHANGED <<storeVars, purge>>
  /\ UNCHANGED <<piiVars, mcpVars, peer>>

\* retrieve_session_data: self.touched[correlator] = time.time()
TurnTouch ==
  /\ turn.pc = "touch"
  /\ touched' = retrieve_touch(touched, turn.correlator, now)
  /\ turn' = [turn EXCEPT !.pc = IF turn.chat_server = None THEN "construct"
                                 ELSE "chat"]
  /\ purge' = IF Sweeping /\ turn.correlator \notin DictKeys(touched)
              THEN [purge EXCEPT !.inserted = purge.inserted + 1] ELSE purge
  /\ UNCHANGED <<now, session_dict, nextInst, last>>
  /\ UNCHANGED <<piiVars, mcpVars, peer>>

\* chat_server = StatefulGenAI(...): it returns the new object, or raises
TurnConstruct(ok) ==
  /\ turn.pc = "construct"
  /\ IF ok
     THEN /\ nextInst <= MaxInst
          /\ nextInst' = nextInst + 1
          /\ turn' = [turn EXCEPT !.pc = "store", !.chat_server = nextInst]
     ELSE /\ turn' = TurnState("idle", "", None)
          /\ UNCHANGED nextInst
  /\ UNCHANGED <<now, session_dict, touched, last, purge>>
  /\ UNCHANGED <<piiVars, mcpVars, peer>>

\* store_session_data: self.session_dict[correlator] = session_data
TurnStore ==
  /\ turn.pc = "store"
  /\ session_dict' = store_data(session_dict, turn.correlator, turn.chat_server)
  /\ turn' = [turn EXCEPT !.pc = "storeTouch"]
  /\ UNCHANGED <<now, touched, nextInst, last, purge>>
  /\ UNCHANGED <<piiVars, mcpVars, peer>>

\* store_session_data: self.touched[correlator] = time.time()
TurnStoreTouch ==
  /\ turn.pc = "storeTouch"
  /\ touched' = store_touch(touched, turn.correlator, now)
  /\ turn' = [turn EXCEPT !.pc = "chat"]
  /\ purge' = IF Sweeping /\ turn.correlator \notin DictKeys(touched)
              THEN [purge EXCEPT !.inserted = purge.inserted + 1] ELSE purge
  /\ UNCHANGED <<now, session_dict, nextInst, last>>
  /\ UNCHANGED <<piiVars, mcpVars, peer>>

\* response = chat_server.chat(text) and the return of execute
TurnChat ==
  /\ turn.pc = "chat"
  /\ turn' = TurnState("idle", "", None)
  /\ UNCHANGED <<storeVars, purge>>
  /\ UNCHANGED <<piiVars, mcpVars, peer>>

\* The same steps of execute, made by the turn of the other session.

\* execute up to answer = self.session_dict.get(correlator, None)
PeerGet(correlators) ==
  /\ peer.pc = "idle"
  /\ \E uuid \in UuidDraws(correlators) :
       LET correlator == TurnCorrelator(correlators, uuid)
       IN peer' = TurnState("touch", correlator,
                            retrieve_answer(session_dict, correlator))
  /\ UNCHANGED <<storeVars, purge, turn>>
  /\ UNCHANGED <<piiVars, mcpVars>>

\* retrieve_session_data: self.touched[correlator] = time.time()
PeerTouch ==
  /\ peer.pc = "touch"
  /\ touched' = retrieve_touch(touched, peer.correlator, now)
  /\ peer' = [peer EXCEPT !.pc = IF peer.chat_server = None THEN "construct"
                                 ELSE "chat"]
  /\ purge' = IF Sweeping /\ peer.correlator \notin DictKeys(touched)
              THEN [purge EXCEPT !.inserted = purge.inserted + 1] ELSE purge
  /\ UNCHANGED <<now, session_dict, nextInst, last, turn>>
  /\ UNCHANGED <<piiVars, mcpVars>>

\* chat_server = StatefulGenAI(...): it returns the new object, or raises
PeerConstruct(ok) ==
  /\ peer.pc = "construct"
  /\ IF ok
     THEN /\ nextInst <= MaxInst
          /\ nextInst' = nextInst + 1
          /\ peer' = [peer EXCEPT !.pc = "store", !.chat_server = nextInst]
     ELSE /\ peer' = TurnState("idle", "", None)
          /\ UNCHANGED nextInst
  /\ UNCHANGED <<now, session_dict, touched, last, purge, turn>>
  /\ UNCHANGED <<piiVars, mcpVars>>

\* store_session_data: self.session_dict[correlator] = session_data
PeerStore ==
  /\ peer.pc = "store"
  /\ session_dict' = store_data(session_dict, peer.correlator, peer.chat_server)
  /\ peer' = [peer EXCEPT !.pc = "storeTouch"]
  /\ UNCHANGED <<now, touched, nextInst, last, purge, turn>>
  /\ UNCHANGED <<piiVars, mcpVars>>

\* store_session_data: self.touched[correlator] = time.time()
PeerStoreTouch ==
  /\ peer.pc = "storeTouch"
  /\ touched' = store_touch(touched, peer.correlator, now)
  /\ peer' = [peer EXCEPT !.pc = "chat"]
  /\ purge' = IF Sweeping /\ peer.correlator \notin DictKeys(touched)
              THEN [purge EXCEPT !.inserted = purge.inserted + 1] ELSE purge
  /\ UNCHANGED <<now, session_dict, nextInst, last, turn>>
  /\ UNCHANGED <<piiVars, mcpVars>>

\* response = chat_server.chat(text) and the return of execute
PeerChat ==
  /\ peer.pc = "chat"
  /\ peer' = TurnState("idle", "", None)
  /\ UNCHANGED <<storeVars, purge, turn>>
  /\ UNCHANGED <<piiVars, mcpVars>>

\* no purge_old call and no execute call is running
InitThreads ==
  /\ purge = PurgeState("idle", 0, 0, 0, "", 0, 0)
  /\ turn = TurnState("idle", "", None)
  /\ peer = TurnState("idle", "", None)

---------------------------------------------------------------------------

\* ChatApplication.startup and PIIDetector.__init__
Init ==
  /\ now = 0
  /\ session_dict = <<>>
  /\ touched = <<>>
  /\ nextInst = 1
  /\ last = [op |-> "startup", correlator |-> "", carried |-> FALSE,
             inst |-> None, created |-> FALSE, raised |-> FALSE,
             first |-> "", minted |-> "", reply |-> NoReply]
  /\ InitDetector
  /\ text = <<>>
  /\ response = MaskResponseOf("raise", <<>>, TRUE, FALSE, <<>>)
  /\ BLOCK = FALSE
  /\ InitClient
  /\ InitThreads
  /\ app = "chat2"

Next ==
  \/ \E cs \in SeqsUpTo(Correlators, MaxTokens) : Execute(cs)
  \/ Stop
  \/ \E d \in Deltas : Tick(d)

Spec == Init /\ [][Next]_vars

\* the stateful chat application with session stops that keep occurring: a stop
\* that would change the store is eventually made
SpecStops == Init /\ [][Next]_vars /\ WF_vars(Stop)

---------------------------------------------------------------------------
(* The detector on its own: one text, the classifier's answer to mask's      *)
(* prompt for it, and any sequence of detector operations.                   *)

InitPII ==
  /\ now = 0
  /\ session_dict = <<>>
  /\ touched = <<>>
  /\ nextInst = 1
  /\ last = [op |-> "startup", correlator |-> "", carried |-> FALSE,
             inst |-> None, created |-> FALSE, raised |-> FALSE,
             first |-> "", minted |-> "", reply |-> NoReply]
  /\ InitDetector
  /\ text \in Texts
  /\ response \in MaskResponses
  /\ BLOCK = FALSE
  /\ InitClient
  /\ InitThreads
  /\ app = "detector"

NextPII ==
  \/ \E d \in DetectResponses : Detect(d)
  \/ \E arg \in SessionIds \cup {NoSession}, uuidSession \in SessionIds,
        uuids \in [1..Len(ExtractItems(response, text)) -> UuidSamples] :
       Mask(arg, uuidSession, uuids)
  \/ \E x \in UnmaskInputs, s \in SessionIds : Unmask(x, s)
  \/ \E s \in SessionIds : GetSessionMappings(s)
  \/ \E s \in SessionIds : ClearSession(s)

SpecPII == InitPII /\ [][NextPII]_vars

---------------------------------------------------------------------------
(* The MCP chat session: one query text, the classifier's answer to mask's   *)
(* prompt for it, a value of BLOCK, and start, turns and stop of one session. *)

\* the query texts sent to the MCP chat session
MCPQueries == { <<"a">>, <<"a", "N">> }

\* the classifier's answers to mask's prompt in the MCP chat session
MCPMaskResponses ==
  { MaskResponseOf("raise", <<>>, TRUE, FALSE, <<>>),
    MaskResponseOf("object", <<>>, TRUE, FALSE, <<>>),
    MaskResponseOf("object", <<Item(JStr(<<"a">>), JStr(<<"n">>))>>, TRUE, FALSE, <<>>),
    MaskResponseOf("object", <<Item(JStr(<<"a">>), JStr(<<"n">>)),
                               Item(JStr(<<"a", "N">>), JStr(<<"N">>))>>,
                   TRUE, FALSE, <<>>),
    MaskResponseOf("text", <<>>, TRUE, FALSE, << <<"n", ":", "a">> >>) }

InitMCP ==
  /\ now = 0
  /\ session_dict = <<>>
  /\ touched = <<>>
  /\ nextInst = 1
  /\ last = [op |-> "startup", correlator |-> "", carried |-> FALSE,
             inst |-> None, created |-> FALSE, raised |-> FALSE,
             first |-> "", minted |-> "", reply |-> NoReply]
  /\ InitDetector
  /\ text \in MCPQueries
  /\ response \in MCPMaskResponses
  /\ BLOCK \in BOOLEAN
  /\ InitClient
  /\ InitThreads
  /\ app = "mcp"

NextMCP ==
  \/ \E ok \in BOOLEAN, assigned \in BOOLEAN : MCPStart(ok, assigned)
  \/ \E d \in DetectResponses, pipe \in PipeKinds : MCPExecute(d, pipe)
  \/ MCPStop

SpecMCP == InitMCP /\ [][NextMCP]_vars

---------------------------------------------------------------------------
(* Either application: a server process hosts the stateful chat application  *)
(* or the MCP chat application, never both.                                  *)

NextApps ==
  \/ app = "chat2" /\ Next
  \/ app = "mcp" /\ NextMCP

SpecApps == (Init \/ InitMCP) /\ [][NextApps]_vars

---------------------------------------------------------------------------
(* The stateful chat application with a purge and a turn running             *)
(* concurrently.                                                             *)

\* a step of the purge thread
PurgeStep ==
  \/ PurgeStart
  \/ PurgeNext
  \/ PurgeTest
  \/ PurgePopTouched
  \/ PurgePopSession

\* a step of the turn thread
TurnStep ==
  \/ \E cs \in SeqsUpTo(Correlators, MaxTokens) : TurnGet(cs)
  \/ TurnTouch
  \/ \E ok \in BOOLEAN : TurnConstruct(ok)
  \/ TurnStore
  \/ TurnStoreTouch
  \/ TurnChat

\* a step of one of the threads, or time passing
NextThreads ==
  \/ PurgeStep
  \/ TurnStep
  \/ \E d \in Deltas : Tick(d)

SpecThreads == Init /\ [][NextThreads]_vars

---------------------------------------------------------------------------
(* The stateful chat application with the turns of two sessions running      *)
(* concurrently.                                                             *)

\* a step of the turn of the other session
PeerStep ==
  \/ \E cs \in SeqsUpTo(Correlators, MaxTokens) : PeerGet(cs)
  \/ PeerTouch
  \/ \E ok \in BOOLEAN : PeerConstruct(ok)
  \/ PeerStore
  \/ PeerStoreTouch
  \/ PeerChat

\* a step of one of the two turns
NextTurns ==
  \/ TurnStep
  \/ PeerStep

SpecTurns == Init /\ [][NextTurns]_vars

---------------------------------------------------------------------------
(* Claims about the stateful chat application, checked under Spec *)

\* C1: a turn that carries a correlator already in the store is served by the
\* state stored for it and creates nothing; a turn that carries a correlator not
\* in the store and gets a state gets a newly created one, distinct from every
\* state already stored, which is then bound to the correlator.
C1_CorrelatorContinuity ==
  [][(last'.op = "execute" /\ last'.carried) =>
       LET c == last'.correlator
       IN IF c \in DOMAIN session_dict
          THEN /\ last'.inst = session_dict[c]
               /\ ~last'.created
               /\ session_dict' = session_dict
               /\ nextInst' = nextInst
          ELSE last'.inst # None =>
                 /\ last'.created
                 /\ last'.inst \notin Instances(session_dict)
                 /\ c \in DOMAIN session_dict'
                 /\ session_dict'[c] = last'.inst]_vars

\* C1 witness: a turn carrying a stored correlator was served by the stored state
\* while another conversation is stored too.
C1_Witness ==
  /\ last.op = "execute" /\ last.carried /\ ~last.created
  /\ last.inst # None
  /\ last.correlator \in DOMAIN session_dict
  /\ session_dict[last.correlator] = last.inst
  /\ Cardinality(DOMAIN session_dict) >= 2

\* C2: after one call of purge_old made at time now, no correlator remains in
\* session_dict whose touch time t satisfies now - t > 3600.
C2_PurgeRemovesEveryExpired ==
  last.op = "purge" =>
    \A c \in DOMAIN session_dict :
      c \in DictKeys(touched) /\ ~Expired(now, DictGet(touched, c))

\* C3: purge_old keeps every entry idle for at most 3600 seconds, with its state
\* and touch time unchanged, and removes an entry idle for 3601 seconds.
C3_IdleEvictionBoundary ==
  [][last'.op = "purge" =>
       \A i \in 1..Len(touched) :
         LET c == touched[i].k
             idle == now - touched[i].v
         IN /\ idle <= IdleLimit =>
                 /\ c \in DictKeys(touched')
                 /\ DictGet(touched', c) = touched[i].v
                 /\ c \in DOMAIN session_dict =>
                      (c \in DOMAIN session_dict' /\ session_dict'[c] = session_dict[c])
            /\ idle = IdleLimit + 1 =>
                 (c \notin DictKeys(touched') /\ c \notin DOMAIN session_dict')]_vars

\* C4: after a turn the touch time of its correlator is the time of the turn's
\* last access (the store when a state was created, the retrieve otherwise), it
\* is not before the start of the turn, and no touch time ever decreases.
C4_EveryAccessTouches ==
  [][/\ last'.op = "execute" =>
          LET c == last'.correlator
          IN /\ c \in DictKeys(touched')
             /\ DictGet(touched', c) = (IF last'.created THEN now' ELSE now)
             /\ DictGet(touched', c) >= now
     /\ \A c \in DictKeys(touched) \cap DictKeys(touched') :
          DictGet(touched', c) >= DictGet(touched, c)]_vars

\* C4 witness: a stored conversation was touched again by a later turn.
C4_Witness ==
  /\ last.op = "execute" /\ ~last.created /\ last.inst # None
  /\ now > 0
  /\ DictGet(touched, last.correlator) = now

\* C5: a turn never removes a correlator from session_dict or touched and never
\* rebinds a stored correlator; a step that removes a key is a purge.
C5_OnlyPurgeRemoves ==
  [][/\ last'.op = "execute" =>
          /\ DOMAIN session_dict \subseteq DOMAIN session_dict'
          /\ \A c \in DOMAIN session_dict : session_dict'[c] = session_dict[c]
          /\ DictKeys(touched) \subseteq DictKeys(touched')
     /\ (\/ ~(DOMAIN session_dict \subseteq DOMAIN session_dict')
         \/ ~(DictKeys(touched) \subseteq DictKeys(touched'))) => last'.op = "purge"]_vars

\* C5 witness: a turn stored a new conversation beside two stored ones.
C5_Witness ==
  /\ last.op = "execute" /\ last.created
  /\ Cardinality(DOMAIN session_dict) >= 3

---------------------------------------------------------------------------
(* Claims about the PII detector, checked under SpecPII *)

\* C6: unmasking the masked text a mask call returned, under the session id it
\* returned, gives back the text that was masked.
C6_RoundTrip ==
  (plast.op = "unmask" /\ plast.flag) => plast.output = text

\* C7: unmask returns its input unchanged when the session is unknown and when
\* the input contains none of the session's placeholders, and it leaves the
\* mapping table as it was (an unknown session is not created).
C7_NoOpUnmask ==
  [][plast'.op = "unmask" =>
       /\ pii_mappings' = pii_mappings
       /\ (\/ plast'.session \notin DOMAIN pii_mappings
           \/ \A p \in DictKeys(pii_mappings[plast'.session]) :
                ~IsSubstr(p, plast'.input))
            => plast'.output = plast'.input]_vars

\* C7 witness: unmask was applied under a session that holds placeholders to a
\* non-empty text containing none of them.
C7_Witness ==
  /\ plast.op = "unmask"
  /\ plast.session \in DOMAIN pii_mappings
  /\ pii_mappings[plast.session] # <<>>
  /\ plast.input # <<>>
  /\ \A p \in DictKeys(pii_mappings[plast.session]) : ~IsSubstr(p, plast.input)
  /\ plast.output = plast.input

\* C8 (as claimed): whenever the classifier call fails or its output is not the
\* expected JSON object (not JSON, or JSON that is no object), detect_pii
\* returns has_pii = false and confidence = low.
C8_FailOpenDetect ==
  (plast.op = "detect" /\ plast.det.kind \in {"raise", "nonobject", "text"}) =>
    (plast.det.has_pii = "false" /\ plast.det.confidence = "low")

\* C8 (amended): when the classifier call fails, or its output is JSON that is
\* no object, detect_pii returns has_pii = false and confidence = low; when the
\* output is not JSON, confidence is low and has_pii is true exactly when the
\* lower-cased output contains true, yes, found or detected.
C8_FailOpenDetectAmended ==
  plast.op = "detect" =>
    /\ plast.det.kind \in {"raise", "nonobject"} =>
         (plast.det.has_pii = "false" /\ plast.det.confidence = "low")
    /\ plast.det.kind = "text" =>
         /\ plast.det.confidence = "low"
         /\ plast.det.has_pii \in {"true", "false"}
         /\ plast.det.has_pii = "true" <=>
              \E w \in { <<"t", "r", "u", "e">>, <<"y", "e", "s">>,
                         <<"f", "o", "u", "n", "d">>,
                         <<"d", "e", "t", "e", "c", "t", "e", "d">> } :
                IsSubstr(w, Lower(plast.det.content))

\* C8 witness: detect_pii ran with the classifier call raising.
C8_Witness ==
  /\ plast.op = "detect" /\ plast.det.kind = "raise"
  /\ plast.det.has_pii = "false" /\ plast.det.confidence = "low"

\* C9: when the classifier call of mask fails (the call itself, or the call of
\* the line-based fallback), mask returns the text unchanged with
\* mappings_count = 0 and an empty placeholder_map.
C9_MaskDegrades ==
  (/\ plast.op = "mask"
   /\ \/ response.kind = "raise"
      \/ response.kind = "text" /\ response.fbRaised) =>
    /\ plast.output = text
    /\ plast.count = 0
    /\ plast.pmap = <<>>

\* C9 witness: mask of a non-empty text returned its error result after the
\* classifier call raised.
C9_Witness ==
  /\ plast.op = "mask" /\ response.kind = "raise"
  /\ text # <<>> /\ plast.flag /\ plast.output = text

\* C10: a mask call never rebinds a placeholder recorded in the session to a
\* different original value, and the placeholders it mints for different
\* values are different.
C10_PlaceholderUniqueness ==
  [][plast'.op = "mask" =>
       /\ \A s \in (DOMAIN pii_mappings) \cap (DOMAIN pii_mappings') :
            \A p \in DictKeys(pii_mappings[s]) \cap DictKeys(pii_mappings'[s]) :
              DictGet(pii_mappings'[s], p) = DictGet(pii_mappings[s], p)
       /\ \A i, j \in 1..Len(plast'.pmap) :
            i # j => plast'.pmap[i].v # plast'.pmap[j].v]_vars

\* C11: clear_session(s) returns true exactly when s had a mapping before the
\* call; afterwards s has no mapping, a second clear_session(s) returns false,
\* and unmask(T, s) returns T for every T, the placeholders s held included.
C11_ClearSession ==
  [][/\ plast'.op = "clear" =>
          LET s == plast'.session
              held == IF s \in DOMAIN pii_mappings
                      THEN DictKeys(pii_mappings[s]) ELSE {}
          IN /\ plast'.flag <=> s \in DOMAIN pii_mappings
             /\ s \notin DOMAIN pii_mappings'
             /\ ~clear_session(s, pii_mappings').returned
             /\ \A T \in UnmaskInputs \cup held : unmask(T, s, pii_mappings') = T
     /\ (plast.op = "clear" /\ plast'.session = plast.session) =>
          /\ plast'.op = "clear" => ~plast'.flag
          /\ plast'.op = "unmask" => plast'.output = plast'.input]_vars

\* C11 witness: clear_session returned true and removed a session while another
\* session keeps its placeholders.
C11_Witness ==
  /\ plast.op = "clear" /\ plast.flag
  /\ plast.session \notin DOMAIN pii_mappings
  /\ \E s \in DOMAIN pii_mappings : pii_mappings[s] # <<>>

\* C12: a step that is not clear_session (detect_pii, mask, unmask,
\* get_session_mappings) keeps every session and every recorded
\* (placeholder -> value) entry with its value; mask only adds entries.
C12_MappingPersistence ==
  [][plast'.op # "clear" =>
       \A s \in DOMAIN pii_mappings :
         /\ s \in DOMAIN pii_mappings'
         /\ \A p \in DictKeys(pii_mappings[s]) :
              /\ p \in DictKeys(pii_mappings'[s])
              /\ DictGet(pii_mappings'[s], p) = DictGet(pii_mappings[s], p)]_vars

---------------------------------------------------------------------------
(* Further claims about the stateful chat application, checked under Spec *)

\* C14: when the chat call of a turn for correlator c fails, the store binds c
\* to the state that served the turn, which is the state bound before the turn
\* if there was one and the newly created one otherwise; a retry turn carrying
\* c right after it is served by that same state and creates nothing.
C14_FailedChatKeepsState ==
  [][/\ (last'.op = "execute" /\ last'.raised /\ last'.inst # None) =>
          LET c == last'.correlator
          IN /\ c \in DOMAIN session_dict'
             /\ session_dict'[c] = last'.inst
             /\ c \in DOMAIN session_dict => session_dict'[c] = session_dict[c]
             /\ \A x \in DOMAIN session_dict : x \in DOMAIN session_dict'
                   /\ session_dict'[x] = session_dict[x]
     /\ (/\ last.op = "execute" /\ last.raised /\ last.inst # None
         /\ last'.op = "execute" /\ last'.first = last.correlator) =>
          (last'.inst = last.inst /\ ~last'.created)]_vars

\* C14 witness: the chat call failed in the turn that created the state of its
\* correlator, and the store binds the correlator to that state.
C14_Witness ==
  /\ last.op = "execute" /\ last.raised /\ last.created
  /\ last.correlator \in DOMAIN session_dict
  /\ session_dict[last.correlator] = last.inst

\* C15: when constructing the state for a new correlator fails, session_dict
\* and touched are exactly as they were before the turn.
C15_NoPartialState ==
  [][(last'.op = "execute" /\ last'.raised /\ last'.inst = None) =>
       (session_dict' = session_dict /\ touched' = touched)]_vars

\* C16: a message returned by execute carries exactly one correlator; it is the
\* first token of the inbound message when there is one and the uuid minted in
\* the turn otherwise, and the store binds it to the state that served the turn.
C16_CorrelatorOnResponse ==
  [][(last'.op = "execute" /\ last'.reply.returned) =>
       /\ Len(last'.reply.tokens) = 1
       /\ LET c == last'.reply.tokens[1]
          IN /\ c = (IF last'.first # "" THEN last'.first ELSE last'.minted)
             /\ c # ""
             /\ last'.inst # None
             /\ c \in DOMAIN session_dict'
             /\ session_dict'[c] = last'.inst]_vars

\* C16 witness: a message without tokens was answered with the correlator
\* minted in the turn, beside another stored conversation.
C16_Witness ==
  /\ last.op = "execute" /\ last.reply.returned
  /\ last.first = "" /\ last.reply.tokens = <<last.minted>>
  /\ Cardinality(DOMAIN session_dict) >= 2

---------------------------------------------------------------------------
(* Further claims about the PII detector, checked under SpecPII *)

\* C19: mask mints a placeholder and records an entry for an item only if the
\* item's value occurs in the masked text as it is when the item is processed;
\* an item whose value has vanished from it is skipped.
C19_SkipsVanished ==
  plast.op = "mask" =>
    \A k \in 1..Len(plast.log) :
      IsSubstr(plast.log[k].value, plast.log[k].before)

\* C20: every value a mask call records, in the session mapping or in
\* placeholder_map, is a non-empty substring of the text; when no item with
\* such a value is listed the text comes back unchanged and no entry is added
\* to any session.
C20_HallucinatedDiscarded ==
  [][plast'.op = "mask" =>
       LET InText(v) == v # <<>> /\ IsSubstr(v, text)
           Entries(m, s) == IF s \in DOMAIN m
                            THEN {m[s][i] : i \in 1..Len(m[s])} ELSE {}
           added == UNION {Entries(pii_mappings', s) \ Entries(pii_mappings, s) :
                             s \in DOMAIN pii_mappings'}
       IN /\ \A k \in 1..Len(plast'.log) : InText(plast'.log[k].value)
          /\ \A k \in 1..Len(plast'.pmap) : InText(plast'.pmap[k].k)
          /\ \A e \in added : InText(e.v)
          /\ Len(plast'.pmap) <= Len(plast'.log)
          /\ plast'.log = <<>> =>
               (plast'.output = text /\ added = {} /\ plast'.pmap = <<>>)
          /\ \A s \in DOMAIN pii_mappings : s \in DOMAIN pii_mappings'
          /\ \A s \in DOMAIN pii_mappings' \ {plast'.session} :
               s \in DOMAIN pii_mappings /\ pii_mappings'[s] = pii_mappings[s]]_vars

\* C20 witness: the classifier listed a value that occurs in the text and one
\* that does not; mask recorded the first only.
C20_Witness ==
  /\ plast.op = "mask" /\ ~plast.flag
  /\ response.kind = "object" /\ Len(response.items) = 2
  /\ Len(plast.log) = 1
  /\ \E i \in 1..2 : /\ response.items[i].dict
                      /\ response.items[i].value.tag = "str"
                      /\ Strip(response.items[i].value.s) # <<>>
                      /\ ~IsSubstr(Strip(response.items[i].value.s), text)

---------------------------------------------------------------------------
(* Claims about both chat sessions, checked under SpecApps *)

\* C13: every turn yields a message carrying text, for the stateful
\* ChatSession and for the MCP ChatSession: execute neither lets a failure
\* propagate nor returns None.
C13_EveryTurnAnswers ==
  /\ last.op = "execute" => (~last.raised /\ last.reply.returned)
  /\ mlast.op = "execute" => mlast.reply.message

\* C17: a stop of the stateful ChatSession runs the purge sweep: it removes no
\* entry that is within the idle limit, and when some entry is expired the
\* first such entry is removed from both tables.  A stop of the MCP
\* ChatSession whose client called mask leaves no mapping under the client's
\* PII session, whatever preceded it.
C17_StopCleansUp ==
  [][/\ last'.op = "purge" =>
          LET expired == {i \in 1..Len(touched) : Expired(now, touched[i].v)}
          IN /\ \A i \in (1..Len(touched)) \ expired :
                  /\ touched[i].k \in DictKeys(touched')
                  /\ touched[i].k \in DOMAIN session_dict =>
                       touched[i].k \in DOMAIN session_dict'
             /\ expired # {} =>
                  LET i == CHOOSE x \in expired : \A y \in expired : x <= y
                  IN /\ touched[i].k \notin DictKeys(touched')
                     /\ touched[i].k \notin DOMAIN session_dict'
     /\ (mlast'.op = "stop" /\ maskCalls >= 1) =>
          /\ current_session_id # NoSession
          /\ current_session_id \notin DOMAIN pii_mappings']_vars

\* C17 witness: an MCP session whose start failed before the connection was
\* made masked a query in a turn and was stopped.
C17_Witness ==
  /\ mlast.op = "stop" /\ maskCalls >= 1
  /\ mcp_session = NoClientSession
  /\ current_session_id # NoSession
  /\ current_session_id \notin DOMAIN pii_mappings

---------------------------------------------------------------------------
(* Claims about concurrent access to the store, checked under SpecThreads *)

\* C18: while a turn of one connection runs concurrently with the purge of
\* another, the purge does not fail because the turn changed the table, and
\* it removes from touched and from session_dict only an entry whose touch
\* time, at the moment of the removal, is more than 3600 seconds old.
C18_SafeConcurrentPurge ==
  [][/\ (purge.pc = "next" /\ purge'.pc = "raised") => purge.inserted = 0
     /\ (purge.pc = "popT" /\ purge'.pc = "popS") =>
          Expired(now, DictGet(touched, purge.x))
     /\ (/\ purge.pc = "popS" /\ purge'.pc = "next"
         /\ purge.x \in DOMAIN session_dict
         /\ purge.x \in DictKeys(touched)) =>
          Expired(now, DictGet(touched, purge.x))]_vars

---------------------------------------------------------------------------
(* Claims about mask and unmask, checked under SpecPII *)

\* C21: when the extracted item list is empty (the classifier's object lists no
\* items, or its output is not JSON and the line-based fallback fails or
\* yields no item), mask returns the text unchanged with mappings_count = 0, an
\* empty placeholder_map and no error, and no placeholder entry is added to
\* any session.
C21_ZeroPiiPassthrough ==
  [][(/\ plast'.op = "mask"
      /\ \/ response.kind = "object" /\ response.iterable /\ response.items = <<>>
         \/ response.kind = "text" /\ response.fbRaised
         \/ response.kind = "text" /\ FallbackLines(response.lines, 1, text) = <<>>) =>
       /\ plast'.output = text
       /\ plast'.count = 0
       /\ plast'.pmap = <<>>
       /\ ~plast'.flag
       /\ \A s \in DOMAIN pii_mappings' :
            pii_mappings'[s] = get_session_mappings(s, pii_mappings)]_vars

\* C21 witness: the fallback call failed for a non-empty text while a session
\* holds placeholders; mask returned the text without error.
C21_Witness ==
  /\ plast.op = "mask" /\ ~plast.flag
  /\ response.kind = "text" /\ response.fbRaised
  /\ text # <<>> /\ plast.output = text /\ plast.count = 0
  /\ plast.session \in DOMAIN pii_mappings

\* C22: for a session that has a mapping, the text unmask returns contains no
\* placeholder of that mapping, and it is the input with each occurrence of
\* such a placeholder replaced by the value recorded for it and every other
\* part (bracketed tokens the mapping does not hold included) left as it was.
C22_UnmaskRestoresAll ==
  (plast.op = "unmask" /\ plast.session \in DOMAIN pii_mappings) =>
    LET mapping == pii_mappings[plast.session]
        StartsWith(str, p) == Len(p) <= Len(str) /\ SubSeq(str, 1, Len(p)) = p
        RECURSIVE Restored(_)
        Restored(str) ==
          IF str = <<>> THEN <<>>
          ELSE IF \E p \in DictKeys(mapping) : StartsWith(str, p)
          THEN LET p == CHOOSE q \in DictKeys(mapping) : StartsWith(str, q)
               IN DictGet(mapping, p) \o Restored(SubSeq(str, Len(p) + 1, Len(str)))
          ELSE <<str[1]>> \o Restored(Tail(str))
    IN /\ \A p \in DictKeys(mapping) : ~IsSubstr(p, plast.output)
       /\ plast.output = Restored(plast.input)

\* C23: when mask accepts an item whose value occurs in the masked text as it
\* is at that moment, every occurrence is replaced by the one placeholder
\* minted for the item, and the call records exactly one placeholder (one
\* mapping entry) for that value, also when the value is listed twice.
C23_AllOccurrencesOnePlaceholder ==
  plast.op = "mask" =>
    \A k \in 1..Len(plast.log) :
      LET e == plast.log[k]
          Occurs(sub, str) ==
            Cardinality({i \in 1..(Len(str) - Len(sub) + 1) :
                           SubSeq(str, i, i + Len(sub) - 1) = sub})
          known == k < Len(plast.log) \/ ~plast.flag
          after == IF k < Len(plast.log) THEN plast.log[k + 1].before
                   ELSE plast.output
      IN IsSubstr(e.value, e.before) =>
           /\ known =>
                /\ IsSubstr(e.placeholder, after)
                /\ IsSubstr(e.value, after) => IsSubstr(e.value, e.placeholder)
                /\ Len(e.value) = 1 =>
                     Occurs(e.placeholder, after) >= Occurs(e.value, e.before)
           /\ Cardinality({plast.log[j].placeholder :
                             j \in {i \in 1..Len(plast.log) :
                                      plast.log[i].value = e.value}}) = 1

---------------------------------------------------------------------------
(* Claims about MCPClient.process_query, checked under SpecMCP *)

\* C24: in a turn where detection reports PII and BLOCK is false, the text
\* handed to the pipeline is the masked_text mask returned for the query, mask
\* and unmask work under one session id, which becomes current_session_id, and
\* the text returned is unmask applied to the pipeline's output; in a turn
\* where detection reports no PII the query is handed over as it is, the
\* pipeline's output is returned as it is and the detector's table and
\* current_session_id are untouched.
C24_MaskedDispatch ==
  [][mlast'.op = "execute" =>
       LET r == mlast'.turn
           sid == IF current_session_id = NoSession THEN r.csid
                  ELSE current_session_id
           Outputs(q) ==
             {process_masked_query(q, mcp_session, pipe).text :
                pipe \in PipeKinds \ {"raise"}}
       IN /\ (r.has_pii /\ ~BLOCK) =>
               /\ r.masked /\ r.called
               /\ r.maskSession = current_session_id
               /\ sid \in SessionIds
               /\ r.csid = sid /\ current_session_id' = sid
               /\ \E uuids \in [1..Len(ExtractItems(response, text)) -> UuidSamples] :
                    LET m == mask(text, sid, response, uuids, pii_mappings)
                    IN /\ r.query = m.result.masked_text
                       /\ pii_mappings' = m.pii_mappings
               /\ r.unmasked <=> ~r.raised
               /\ ~r.raised =>
                    /\ r.unmaskSession = sid
                    /\ \E out \in Outputs(r.query) :
                         r.text = unmask(out, sid, pii_mappings')
          /\ ~r.has_pii =>
               /\ ~r.masked /\ ~r.unmasked
               /\ r.called /\ r.query = text
               /\ pii_mappings' = pii_mappings
               /\ current_session_id' = current_session_id
               /\ ~r.raised => r.text \in Outputs(text)]_vars

\* C24 witness: a turn with PII detected and BLOCK false dispatched a masked
\* text that differs from the query, the pipeline repeated it, and the reply
\* is its unmasked form.
C24_Witness ==
  /\ mlast.op = "execute" /\ ~BLOCK /\ mcp_session = "open"
  /\ mlast.turn.has_pii /\ mlast.turn.masked /\ mlast.turn.unmasked
  /\ mlast.turn.query # text
  /\ mlast.reply.message
  /\ mlast.reply.text = unmask(mlast.turn.query, current_session_id, pii_mappings)
  /\ mlast.reply.text # mlast.turn.query

---------------------------------------------------------------------------
(* Claims about repeated stops, checked under SpecStops *)

\* C25: while stops keep occurring, a correlator whose entry is expired is
\* eventually in neither touched nor session_dict, unless a turn accesses it
\* again; this also holds when several entries are expired at the same time.
C25_IdleEventuallyReclaimed ==
  \A c \in Correlators :
    (c \in DictKeys(touched) /\ Expired(now, DictGet(touched, c)))
      ~> \/ c \notin DictKeys(touched) /\ c \notin DOMAIN session_dict
         \/ last.op = "execute" /\ last.correlator = c

\* C25 witness: two conversations created at the same time expired together
\* and stops have removed both.
C25_Witness ==
  /\ last.op = "purge" /\ now = MaxNow
  /\ nextInst = 3
  /\ touched = <<>> /\ session_dict = <<>>

---------------------------------------------------------------------------
(* Claims about detect_pii and mask, checked under SpecPII *)

\* C26: whatever the classifier does (a well-formed reply, a malformed one, a
\* failure), detect_pii returns a boolean has_pii and a confidence that is
\* low, medium or high.
C26_DetectionShape ==
  plast.op = "detect" =>
    /\ plast.det.has_pii \in {"true", "false"}
    /\ plast.det.confidence \in {"low", "medium", "high"}

---------------------------------------------------------------------------
(* Further claims about the purge, checked under Spec *)

\* C27: purge_old returns without raising whatever the store holds, expired
\* entries included, so that ChatSession.stop does not fail.
C27_PurgeCompletes ==
  last.op = "purge" => ~last.raised

---------------------------------------------------------------------------
(* Further claims about mask, checked under SpecPII *)

\* C28: the masked_text of a mask call that returned without error contains no
\* value the call recorded in the session mapping, not even inside a
\* placeholder inserted for a later item.
C28_NoRecordedValueSurvives ==
  (plast.op = "mask" /\ ~plast.flag) =>
    \A k \in 1..Len(plast.log) : ~IsSubstr(plast.log[k].value, plast.output)

---------------------------------------------------------------------------
(* Further claims about MCPClient.process_query, checked under SpecMCP *)

\* C29: in a turn where detect_pii reports PII the query itself never reaches
\* the pipeline: with BLOCK true nothing is handed to it, with BLOCK false the
\* text that reaches the model differs from the query and contains a
\* placeholder of the client's PII session, also when the classifier call of
\* mask fails or lists no usable item.
C29_DetectedPiiNeverLeaves ==
  (mlast.op = "execute" /\ mlast.turn.has_pii) =>
    LET r == mlast.turn
    IN /\ BLOCK => ~r.called
       /\ (~BLOCK /\ r.sent) =>
            /\ r.query # text
            /\ r.csid \in DOMAIN r.mappings
            /\ \E p \in DictKeys(r.mappings[r.csid]) : IsSubstr(p, r.query)

\* C30: with BLOCK true, a turn in which detect_pii reports PII returns the
\* warning text; mask is not called, nothing is handed to the model or a tool,
\* and the detector's table and current_session_id stay as they were.
C30_BlockStopsTurn ==
  [][(mlast'.op = "execute" /\ BLOCK /\ mlast'.turn.has_pii) =>
       /\ ~mlast'.turn.raised
       /\ mlast'.reply = TextMessage(WarningText)
       /\ ~mlast'.turn.masked /\ ~mlast'.turn.unmasked
       /\ ~mlast'.turn.called /\ ~mlast'.turn.sent
       /\ maskCalls' = maskCalls
       /\ pii_mappings' = pii_mappings
       /\ current_session_id' = current_session_id]_vars

---------------------------------------------------------------------------
(* Claims about the mapping table of the detector, checked under SpecPII *)

\* C32: when mask returns its error result the mapping table is what it was
\* before the call: no session was created and no placeholder entry added,
\* also when the failure came after some items had been processed.
C32_FailedMaskLeavesMappings ==
  [][(plast'.op = "mask" /\ plast'.flag) => pii_mappings' = pii_mappings]_vars

\* C33: for a mask call that returns without error, mappings_count is the
\* number of (placeholder -> value) entries the call added to the mapping of
\* its session, and the number of distinct placeholders of that mapping which
\* occur in masked_text and did not occur in the text.
C33_MappingsCount ==
  [][(plast'.op = "mask" /\ ~plast'.flag) =>
       LET s == plast'.session
           before == get_session_mappings(s, pii_mappings)
           after == pii_mappings'[s]
           added == {i \in 1..Len(after) :
                       \A j \in 1..Len(before) : before[j] # after[i]}
           inText == {p \in DictKeys(after) :
                        IsSubstr(p, plast'.output) /\ ~IsSubstr(p, text)}
       IN /\ plast'.count = Cardinality(added)
          /\ plast'.count = Cardinality(inText)]_vars

\* C34: mask, unmask and clear_session called with a session id leave the
\* mapping of every other session as it was and do not depend on it: the
\* result of the call is the one obtained with all other sessions removed
\* from the table.  unmask leaves a placeholder held only by another session
\* in place.
C34_SessionsIsolated ==
  [][plast'.op \in {"mask", "unmask", "clear"} =>
       LET A == plast'.session
           own == [s \in (DOMAIN pii_mappings) \cap {A} |-> pii_mappings[s]]
       IN /\ \A B \in SessionIds \ {A} :
               /\ B \in DOMAIN pii_mappings' <=> B \in DOMAIN pii_mappings
               /\ B \in DOMAIN pii_mappings => pii_mappings'[B] = pii_mappings[B]
          /\ plast'.op = "unmask" =>
               /\ plast'.output = unmask(plast'.input, A, own)
               /\ \A B \in (DOMAIN pii_mappings) \ {A} :
                    \A p \in DictKeys(pii_mappings[B]) :
                      (/\ IsSubstr(p, plast'.input)
                       /\ p \notin DictKeys(get_session_mappings(A, pii_mappings)))
                        => IsSubstr(p, plast'.output)
          /\ plast'.op = "clear" =>
               plast'.flag = clear_session(A, own).returned
          /\ plast'.op = "mask" =>
               \E uuids \in [1..Len(ExtractItems(response, text)) -> UuidSamples] :
                 LET m == mask(text, A, response, uuids, own)
                 IN /\ plast'.output = m.result.masked_text
                    /\ plast'.count = m.result.mappings_count
                    /\ A \in DOMAIN pii_mappings' =>
                         (A \in DOMAIN m.pii_mappings
                          /\ pii_mappings'[A] = m.pii_mappings[A])]_vars

\* C34 witness: unmask under one session was given a placeholder that only
\* another session holds, while its own session holds placeholders too, and
\* returned it as it was.
C34_Witness ==
  /\ plast.op = "unmask"
  /\ plast.session \in DOMAIN pii_mappings
  /\ pii_mappings[plast.session] # <<>>
  /\ \E B \in (DOMAIN pii_mappings) \ {plast.session} :
       \E p \in DictKeys(pii_mappings[B]) :
         /\ p \notin DictKeys(pii_mappings[plast.session])
         /\ plast.input = p
         /\ plast.output = p

---------------------------------------------------------------------------
(* Further claims about the store, checked under Spec *)

\* C35: after every operation of the application (a turn, whether it failed or
\* not, and a purge, whether it raised or not) every correlator that has a
\* state in session_dict has a touch time in touched.
C35_StoredIsEvictable ==
  DOMAIN session_dict \subseteq DictKeys(touched)

\* C35 witness: a purge removed an expired conversation and raised while
\* another conversation is still stored.
C35_Witness ==
  /\ last.op = "purge" /\ last.raised
  /\ session_dict # <<>>
  /\ nextInst > Cardinality(DOMAIN session_dict) + 1

---------------------------------------------------------------------------
(* Claims about the PII session of an MCPClient, checked under SpecMCP *)

\* C36: along the turns and the cleanup of one client, current_session_id
\* never changes once it is set, the client's detector holds mappings under
\* no session id but current_session_id, and after the cleanup of a stop it
\* holds no mapping at all.
C36_OneSessionPerClient ==
  [][/\ current_session_id # NoSession =>
          current_session_id' = current_session_id
     /\ DOMAIN pii_mappings' \subseteq {current_session_id'} \ {NoSession}
     /\ mlast'.op = "stop" => DOMAIN pii_mappings' = {}]_vars

\* C36 witness: two turns of one client masked a query and both recorded
\* their placeholders under the client's one session id.
C36_Witness ==
  /\ mlast.op = "execute" /\ maskCalls = 2
  /\ current_session_id \in SessionIds
  /\ DOMAIN pii_mappings = {current_session_id}
  /\ Len(pii_mappings[current_session_id]) >= 2

---------------------------------------------------------------------------
(* Claims about concurrent turns, checked under SpecTurns *)

\* C31: when the turns of two sessions carry the same correlator, a turn that
\* has reached its chat call runs it on the state the store binds to the
\* correlator, and two such turns run on one and the same state: no second
\* state is created for the correlator and none is overwritten.
C31_NoFork ==
  /\ \A t \in {turn, peer} :
       t.pc = "chat" =>
         /\ t.correlator \in DOMAIN session_dict
         /\ session_dict[t.correlator] = t.chat_server
  /\ (turn.pc = "chat" /\ peer.pc = "chat" /\ turn.correlator = peer.correlator)
       => turn.chat_server = peer.chat_server

====
